---- MODULE Spec2Model ----
(***************************************************************************)
(* The Game aggregate of the QueTrucazo server (modules/games/core/domain/ *)
(* Game.ts): an immutable record of players, state and event log, and the  *)
(* transitions new, join, start, throwCard, envido, answerEnvido and       *)
(* goToDeck.  A transition either throws (the caller keeps the old game)   *)
(* or returns a new game; the model records the last call and its error so *)
(* that both outcomes can be stated.                                       *)
(***************************************************************************)
EXTENDS Integers, Sequences, FiniteSets, TLC

\* game is the game as the repository holds it; inflight and notified belong
\* to the use cases that load it, change it, save it and notify the players.
VARIABLES game, lastCall, lastErr, inflight, notified

vars == <<game, lastCall, lastErr, inflight, notified>>

orch == <<inflight, notified>>

(* ------------------------------ bounds -------------------------------- *)

\* Transitions are taken while the event log is shorter than this.
MaxEvents == 7

\* User ids that create, join and act.
Users == {1, 2}

\* The aggregate called directly: join is taken while the game has fewer
\* players than MaxPlayers, the other transitions while the event log is
\* shorter than MaxRawEvents.
MaxPlayers == 3

MaxRawEvents == 3

\* A match played to its last trick: transitions are taken while the event
\* log is shorter than this.
MaxMatchEvents == 11

\* Use cases run two at a time and load a game while the saved event log
\* and the list of notified events are both shorter than MaxSavedEvents.
MaxSavedEvents == 4

Requests == {1, 2}

(* ----------------------------- constants ------------------------------ *)

MAX_POINTS == 5

\* `undefined` where the source stores a user id (ids are positive).
Undefined == 0

TRUCO == "TRUCO"
RETRUCO == "RETRUCO"
VALE_CUATRO == "VALE_CUATRO"
TrucoCall == {TRUCO, RETRUCO, VALE_CUATRO}

ENVIDO == "ENVIDO"
REAL_ENVIDO == "REAL_ENVIDO"
FALTA_ENVIDO == "FALTA_ENVIDO"

EnvidoCall == {ENVIDO, REAL_ENVIDO, FALTA_ENVIDO}

\* The messages of the errors the transitions throw; NoError is a return.
NoError == "ok"
NotYourTurn == "Not your turn"
WaitingResponse == "Waiting response"
InvalidCard == "Invalid card"
InvalidStep == "Invalid step"
InvalidEnvidoCall == "Invalid envido call"
NotWaitingResponse == "Not waiting response"
\* A property read or a spread of `undefined` (a game with one player, or
\* one that was never dealt): the engine's TypeError, not a domain error.
TypeError == "TypeError"

(* ------------------------------- cards -------------------------------- *)

Card(n, s) == [n |-> n, s |-> s]

NoCard == Card(0, "none")

\* Rank of a card when two thrown cards are compared.
getCardValue(c) ==
    CASE c = Card(1, "espada") -> 14
      [] c = Card(1, "basto") -> 13
      [] c = Card(7, "espada") -> 12
      [] c = Card(7, "oro") -> 11
      [] c.n = 3 -> 10
      [] c.n = 2 -> 9
      [] c.n = 1 -> 8
      [] c.n = 12 -> 7
      [] c.n = 11 -> 6
      [] c.n = 10 -> 5
      [] c.n = 7 -> 4
      [] c.n = 6 -> 3
      [] c.n = 5 -> 2
      [] OTHER -> 1

\* Face cards count 0 for envido, the others their number.
envidoRank(c) == IF c.n >= 10 THEN 0 ELSE c.n

SetMax(S) == CHOOSE x \in S : \A y \in S : y <= x

\* 20 + the two highest ranks of a suit held twice, else the highest rank.
getEnvidoCardsValue(cards) ==
    LET pairs == {20 + envidoRank(cards[i]) + envidoRank(cards[j]) :
                    <<i, j>> \in {ij \in (DOMAIN cards) \X (DOMAIN cards) :
                                    ij[1] < ij[2] /\ cards[ij[1]].s = cards[ij[2]].s}}
        singles == {envidoRank(cards[i]) : i \in DOMAIN cards}
    IN  IF pairs # {} THEN SetMax(pairs)
        ELSE IF singles # {} THEN SetMax(singles)
        ELSE 0

\* `map[key] || []`
OrEmpty(map, key) == IF key \in DOMAIN map THEN map[key] ELSE <<>>

Min(a, b) == IF a < b THEN a ELSE b

\* Best of three tricks over the cards thrown so far; Undefined while the
\* round is open.  A drawn first trick is decided by the next trick won, a
\* trick drawn after a won one by the first trick, three drawn tricks by
\* the first id.
getRoundWinner(playersIds, thrownCards) ==
    LET t1 == OrEmpty(thrownCards, playersIds[1])
        t2 == OrEmpty(thrownCards, playersIds[2])
        n == Min(Len(t1), Len(t2))
        r(i) == IF getCardValue(t1[i]) = getCardValue(t2[i]) THEN Undefined
                ELSE IF getCardValue(t1[i]) > getCardValue(t2[i]) THEN playersIds[1]
                ELSE playersIds[2]
    IN  IF n < 2 THEN Undefined
        ELSE IF r(1) # Undefined /\ r(2) \in {r(1), Undefined} THEN r(1)
        ELSE IF r(1) = Undefined /\ r(2) # Undefined THEN r(2)
        ELSE IF n < 3 THEN Undefined
        ELSE IF r(3) # Undefined THEN r(3)
        ELSE IF r(1) # Undefined THEN r(1)
        ELSE playersIds[1]

\* The deals generatePlayersCards() draws from: two disjoint hands of three
\* cards.  The first hand wins envido in the first deal, the second hand in
\* the second, and the hands tie in the third; every deal has one pair of
\* cards of equal rank.
Deals ==
    { << <<Card(7, "espada"), Card(6, "espada"), Card(4, "copa")>>,
         <<Card(5, "basto"), Card(4, "basto"), Card(1, "oro")>> >>,
      << <<Card(3, "oro"), Card(2, "copa"), Card(12, "basto")>>,
         <<Card(3, "espada"), Card(1, "espada"), Card(11, "oro")>> >>,
      << <<Card(5, "oro"), Card(12, "copa"), Card(1, "basto")>>,
         <<Card(5, "copa"), Card(10, "basto"), Card(2, "espada")>> >> }

(* ------------------------------ the game ------------------------------ *)

\* The number that is not a number: what the source computes from a points
\* entry that was never written.  No score is negative.
NaN == -1

\* points[p] read as a number: an entry that is missing is undefined, which
\* adds and compares as NaN does.
PointsOf(points, p) == IF p \in DOMAIN points THEN points[p] ELSE NaN

Add(a, b) == IF a = NaN \/ b = NaN THEN NaN ELSE a + b

Subtract(a, b) == IF a = NaN \/ b = NaN THEN NaN ELSE a - b

\* a >= b and a < b, both false of NaN.
Geq(a, b) == a # NaN /\ b # NaN /\ a >= b

Less(a, b) == a # NaN /\ b # NaN /\ a < b

EmptyMap == [p \in {} |-> <<>>]

\* envido.accepted is "undefined" until answered, then "true" or "false".
Accepted(b) == IF b THEN "true" ELSE "false"

NewEnvido ==
    [calls |-> <<>>, firstCaller |-> Undefined, lastCaller |-> Undefined,
     acceptedBy |-> Undefined, accepted |-> "undefined", winner |-> Undefined,
     playersPoints |-> EmptyMap, waitingResponse |-> FALSE]

\* Game.new(user)
new(user) ==
    [players |-> <<user>>,
     events |-> <<>>,
     state |-> [started |-> FALSE, firstPlayer |-> user, playerTurn |-> user,
                winner |-> Undefined, round |-> 1, cards |-> EmptyMap,
                thrownCards |-> EmptyMap, trucoPoints |-> 1, points |-> EmptyMap,
                envido |-> NewEnvido]]

\* A transition that threw: the caller is left with the game it had.
Throw(g, e) == [err |-> e, game |-> g]

Return(g) == [err |-> NoError, game |-> g]

\* A transition that forgets whose turn it is.
notPlayerTurnUnchecked(g, userId) == FALSE

\* this.state.playerTurn !== userId
notPlayerTurn(g, userId) == g.state.playerTurn # userId

canJoin(g, userId) ==
    ~g.state.started /\ Len(g.players) = 1 /\ g.players[1] # userId

join(g, user) == [g EXCEPT !.players = Append(g.players, user)]

getPlayersIds(g) == g.players

\* The second player taken for the opponent of whoever asks.
OtherPlayerSecond(g, userId) ==
    IF Len(g.players) < 2 THEN Undefined ELSE g.players[2]

\* players.find(player => player.id !== userId)
OtherPlayer(g, userId) ==
    IF \E i \in DOMAIN g.players : g.players[i] # userId
    THEN g.players[CHOOSE i \in DOMAIN g.players :
                     /\ g.players[i] # userId
                     /\ \A j \in DOMAIN g.players : g.players[j] # userId => i <= j]
    ELSE Undefined

(* ------------------------------- events ------------------------------- *)

buildStartEvent == [type |-> "START"]

buildNextRoundEvent(round, cards, nextPlayerId) ==
    [type |-> "NEXT_ROUND", round |-> round, cards |-> cards, nextPlayerId |-> nextPlayerId]

buildThrowCardEvent(playerId, card, nextPlayerId) ==
    [type |-> "THROW_CARD", playerId |-> playerId, card |-> card, nextPlayerId |-> nextPlayerId]

buildRoundResultEvent(winner, points) ==
    [type |-> "ROUND_RESULT", winner |-> winner, points |-> points]

buildResultEvent(winner, points) ==
    [type |-> "RESULT", winner |-> winner, points |-> points]

buildToDeckEvent(playerId) == [type |-> "TO_DECK", playerId |-> playerId]

(* ------------------------- step and turn order ------------------------ *)

\* The trick counted by the player who has thrown more cards.
stepOfMostThrown(g) ==
    LET player1ThrownCards == OrEmpty(g.state.thrownCards, g.players[1])
        player2ThrownCards == OrEmpty(g.state.thrownCards, g.players[2])
        thrownCards == IF Len(player1ThrownCards) > Len(player2ThrownCards)
                       THEN player1ThrownCards ELSE player2ThrownCards
    IN  Len(thrownCards) + 1

step(g) ==
    LET player1ThrownCards == OrEmpty(g.state.thrownCards, g.players[1])
        player2ThrownCards == OrEmpty(g.state.thrownCards, g.players[2])
        thrownCards == IF Len(player1ThrownCards) < Len(player2ThrownCards)
                       THEN player1ThrownCards ELSE player2ThrownCards
    IN  Len(thrownCards) + 1

setNextTurnPlayer(g) ==
    LET player1ThrownCards == OrEmpty(g.state.thrownCards, g.players[1])
        player2ThrownCards == OrEmpty(g.state.thrownCards, g.players[2])
        player1LastCardValue == getCardValue(player1ThrownCards[Len(player1ThrownCards)])
        player2LastCardValue == getCardValue(player2ThrownCards[Len(player2ThrownCards)])
    IN  IF Len(player1ThrownCards) = Len(player2ThrownCards)
        THEN [g EXCEPT !.state.playerTurn =
                IF player1LastCardValue = player2LastCardValue
                THEN IF g.state.playerTurn = g.players[1] THEN g.players[2] ELSE g.players[1]
                ELSE IF player1LastCardValue > player2LastCardValue
                     THEN g.players[1] ELSE g.players[2]]
        ELSE [g EXCEPT !.state.playerTurn =
                IF Len(player1ThrownCards) < Len(player2ThrownCards)
                THEN g.players[1] ELSE g.players[2]]

\* A pending envido that blocks nothing.
isWaitingResponseNever(g) == FALSE

isWaitingResponse(g) == g.state.envido.waitingResponse

(* ------------------------ match and round result ---------------------- *)

\* <<game with winner and RESULT>> when a player has MAX_POINTS, else <<>>
\* (the source's undefined).
withWinnerResult(g) ==
    LET p1 == g.players[1]
        p2 == g.players[2]
        points == g.state.points
    IN  IF Geq(PointsOf(points, p1), MAX_POINTS) \/ Geq(PointsOf(points, p2), MAX_POINTS)
        THEN LET winner == IF Geq(PointsOf(points, p1), PointsOf(points, p1))
                           THEN p1 ELSE p2
             IN  << [g EXCEPT !.events = Append(g.events, buildResultEvent(winner, g.state.points)),
                              !.state.winner = winner] >>
        ELSE <<>>

\* A next round that keeps the mano of the round before.
withNextRoundSameMano(g, deal) ==
    LET won == withWinnerResult(g)
        cards == (g.players[2] :> deal[2]) @@ (g.players[1] :> deal[1])
        round == g.state.round + 1
        firstPlayer == g.state.firstPlayer
    IN  IF won # <<>> THEN won[1]
        ELSE [g EXCEPT
                !.events = Append(g.events, buildNextRoundEvent(round, cards, firstPlayer)),
                !.state = [started |-> TRUE, winner |-> Undefined, round |-> round,
                           cards |-> cards, firstPlayer |-> firstPlayer,
                           thrownCards |-> EmptyMap, playerTurn |-> firstPlayer,
                           trucoPoints |-> 1, points |-> g.state.points,
                           envido |-> NewEnvido]]

\* deal is what generatePlayersCards() returns when it is called.
withNextRoundOrWin(g, deal) ==
    LET won == withWinnerResult(g)
        cards == (g.players[2] :> deal[2]) @@ (g.players[1] :> deal[1])
        round == g.state.round + 1
        firstPlayer == IF g.state.firstPlayer = g.players[1]
                       THEN g.players[2] ELSE g.players[1]
    IN  IF won # <<>> THEN won[1]
        ELSE [g EXCEPT
                !.events = Append(g.events, buildNextRoundEvent(round, cards, firstPlayer)),
                !.state = [started |-> TRUE, winner |-> Undefined, round |-> round,
                           cards |-> cards, firstPlayer |-> firstPlayer,
                           thrownCards |-> EmptyMap, playerTurn |-> firstPlayer,
                           trucoPoints |-> 1, points |-> g.state.points,
                           envido |-> NewEnvido]]

setRoundWinner(g, winner, deal) ==
    LET extraPoints == g.state.trucoPoints
        points == (winner :> Add(PointsOf(g.state.points, winner), extraPoints))
                      @@ g.state.points
    IN  withNextRoundOrWin(
            [g EXCEPT !.events = Append(g.events, buildRoundResultEvent(winner, points)),
                      !.state.points = points],
            deal)

withRoundWinnerValidation(g, deal) ==
    LET winner == getRoundWinner(getPlayersIds(g), g.state.thrownCards)
    IN  IF winner = Undefined THEN g ELSE setRoundWinner(g, winner, deal)

(* ------------------------------- start -------------------------------- *)

\* A start that begins the event log anew.
startFreshLog(g, deal) ==
    LET points == (g.players[2] :> 0) @@ (g.players[1] :> 0)
        cards == (g.players[2] :> deal[2]) @@ (g.players[1] :> deal[1])
    IN  [g EXCEPT
            !.events = << buildStartEvent,
                          buildNextRoundEvent(g.state.round, cards, g.state.firstPlayer) >>,
            !.state.started = TRUE,
            !.state.cards = cards,
            !.state.points = points]

\* An object literal that names a key twice keeps the later value.
start(g, deal) ==
    LET points == (g.players[2] :> 0) @@ (g.players[1] :> 0)
        cards == (g.players[2] :> deal[2]) @@ (g.players[1] :> deal[1])
    IN  [g EXCEPT
            !.events = g.events \o << buildStartEvent,
                                      buildNextRoundEvent(g.state.round, cards, g.state.firstPlayer) >>,
            !.state.started = TRUE,
            !.state.cards = cards,
            !.state.points = points]

(* ------------------------------ throwCard ----------------------------- *)

Includes(seq, x) == \E i \in DOMAIN seq : seq[i] = x

\* A throw that keeps the card in the hand.
WithoutNothing(seq, x) == seq

\* seq.filter(c => c !== x)
Without(seq, x) == SelectSeq(seq, LAMBDA c : c # x)

throwCard(g, userId, card, deal) ==
    IF notPlayerTurn(g, userId) THEN Throw(g, NotYourTurn)
    ELSE IF isWaitingResponse(g) THEN Throw(g, WaitingResponse)
    ELSE IF userId \notin DOMAIN g.state.cards THEN Throw(g, TypeError)
    ELSE IF ~Includes(g.state.cards[userId], card) THEN Throw(g, InvalidCard)
    ELSE LET moved == [g EXCEPT
                         !.state.cards = (userId :> Without(g.state.cards[userId], card))
                                            @@ g.state.cards,
                         !.state.thrownCards =
                            (userId :> Append(OrEmpty(g.state.thrownCards, userId), card))
                                @@ g.state.thrownCards]
             updatedGame == setNextTurnPlayer(moved)
             throwCardEvent == buildThrowCardEvent(userId, card, updatedGame.state.playerTurn)
         IN  Return(withRoundWinnerValidation(
                 [updatedGame EXCEPT !.events = Append(g.events, throwCardEvent)], deal))

(* ------------------------------- envido ------------------------------- *)

\* ENVIDO accepted after any ENVIDO, not only the first.
isValidEnvidoCallAnyEnvido(g, call) ==
    LET calls == g.state.envido.calls
        lastCall_ == calls[Len(calls)]
    IN  IF Len(calls) = 0 THEN TRUE
        ELSE CASE lastCall_ = ENVIDO -> TRUE
               [] lastCall_ = REAL_ENVIDO -> call = FALTA_ENVIDO
               [] lastCall_ = FALTA_ENVIDO -> FALSE

isValidEnvidoCall(g, call) ==
    LET calls == g.state.envido.calls
        lastCall_ == calls[Len(calls)]
    IN  IF Len(calls) = 0 THEN TRUE
        ELSE CASE lastCall_ = ENVIDO ->
                    \/ call = ENVIDO /\ Len(calls) = 1
                    \/ call = REAL_ENVIDO
                    \/ call = FALTA_ENVIDO
               [] lastCall_ = REAL_ENVIDO -> call = FALTA_ENVIDO
               [] lastCall_ = FALTA_ENVIDO -> FALSE

envido(g, userId, call) ==
    IF notPlayerTurn(g, userId) THEN Throw(g, NotYourTurn)
    ELSE IF Len(g.players) < 2 THEN Throw(g, TypeError)
    ELSE IF step(g) # 1 THEN Throw(g, InvalidStep)
    ELSE IF ~isValidEnvidoCall(g, call) THEN Throw(g, InvalidEnvidoCall)
    ELSE IF OtherPlayer(g, userId) = Undefined THEN Throw(g, TypeError)
    ELSE LET old == g.state.envido
             newEnvido ==
                [calls |-> Append(old.calls, call),
                 firstCaller |-> IF old.firstCaller # Undefined THEN old.firstCaller ELSE userId,
                 lastCaller |-> userId,
                 acceptedBy |-> Undefined, accepted |-> "undefined", winner |-> Undefined,
                 playersPoints |-> EmptyMap, waitingResponse |-> TRUE]
             envidoCallEvent == [type |-> "ENVIDO_CALL", call |-> call, caller |-> userId]
         IN  Return([g EXCEPT !.events = Append(g.events, envidoCallEvent),
                              !.state.envido = newEnvido,
                              !.state.playerTurn = OtherPlayer(g, userId)])

RECURSIVE EnvidoSum(_, _, _)
\* The loop of getEnvidoPoints over calls[i..], otherPoints being the
\* points of the player who is not the winner.
EnvidoSum(calls, i, otherPoints) ==
    IF i > Len(calls) THEN 0
    ELSE LET term == CASE calls[i] = ENVIDO -> 2
                       [] calls[i] = REAL_ENVIDO -> 3
                       [] calls[i] = FALTA_ENVIDO ->
                            IF Less(otherPoints, 15) THEN MAX_POINTS
                            ELSE Subtract(30, otherPoints)
         IN  Add(term, EnvidoSum(calls, i + 1, otherPoints))

\* Two points for every call, whatever the call.
getEnvidoPointsFlat(g, winner) == 2 * Len(g.state.envido.calls)

getEnvidoPoints(g, winner) ==
    EnvidoSum(g.state.envido.calls, 1, PointsOf(g.state.points, OtherPlayer(g, winner)))

\* A declined envido worth one point, however long the chain.
analyzeEnvidoDeclinedOne(g, userId, accepted) ==
    LET old == g.state.envido
        p1 == g.players[1]
        p2 == g.players[2]
        player1EnvidoPoints ==
            getEnvidoCardsValue(g.state.cards[p1] \o OrEmpty(g.state.thrownCards, p1))
        player2EnvidoPoints ==
            getEnvidoCardsValue(g.state.cards[p2] \o OrEmpty(g.state.thrownCards, p2))
        winner == IF player1EnvidoPoints = player2EnvidoPoints THEN g.state.firstPlayer
                  ELSE IF player1EnvidoPoints > player2EnvidoPoints THEN p1 ELSE p2
    IN  IF ~accepted
        THEN [winner |-> old.lastCaller,
              playersPoints |-> (userId :> 0) @@ (old.lastCaller :> 1)]
        ELSE [winner |-> winner,
              playersPoints |-> (OtherPlayer(g, winner) :> 0)
                                    @@ (winner :> getEnvidoPoints(g, winner))]

\* Thrown only where the source dereferences undefined; else the result.
analyzeEnvido(g, userId, accepted) ==
    LET old == g.state.envido
        p1 == g.players[1]
        p2 == g.players[2]
        player1EnvidoPoints ==
            getEnvidoCardsValue(g.state.cards[p1] \o OrEmpty(g.state.thrownCards, p1))
        player2EnvidoPoints ==
            getEnvidoCardsValue(g.state.cards[p2] \o OrEmpty(g.state.thrownCards, p2))
        winner == IF player1EnvidoPoints = player2EnvidoPoints THEN g.state.firstPlayer
                  ELSE IF player1EnvidoPoints > player2EnvidoPoints THEN p1 ELSE p2
    IN  IF ~accepted
        THEN [winner |-> old.lastCaller,
              playersPoints |-> (userId :> 0) @@ (old.lastCaller :> Len(old.calls))]
        ELSE [winner |-> winner,
              playersPoints |-> (OtherPlayer(g, winner) :> 0)
                                    @@ (winner :> getEnvidoPoints(g, winner))]

\* The turn handed to the last caller once the envido is answered.
answerEnvidoTurnToLastCaller(g, userId, accepted) ==
    IF notPlayerTurn(g, userId) THEN Throw(g, NotYourTurn)
    ELSE IF Len(g.players) < 2 THEN Throw(g, TypeError)
    ELSE IF step(g) # 1 THEN Throw(g, InvalidStep)
    ELSE IF ~g.state.envido.waitingResponse THEN Throw(g, NotWaitingResponse)
    ELSE IF accepted /\ ~({g.players[1], g.players[2]} \subseteq DOMAIN g.state.cards)
    THEN Throw(g, TypeError)
    ELSE LET old == g.state.envido
             res == analyzeEnvido(g, userId, accepted)
             newEnvido ==
                [calls |-> old.calls, firstCaller |-> old.firstCaller,
                 lastCaller |-> old.lastCaller, acceptedBy |-> userId,
                 accepted |-> Accepted(accepted), winner |-> res.winner,
                 playersPoints |-> res.playersPoints, waitingResponse |-> FALSE]
             awarded(p) == Add(PointsOf(g.state.points, p), PointsOf(res.playersPoints, p))
             points == (g.players[2] :> awarded(g.players[2]))
                           @@ (g.players[1] :> awarded(g.players[1]))
             envidoEvent ==
                IF accepted
                THEN [type |-> "ENVIDO_ACCEPTED", acceptedBy |-> userId, points |-> points]
                ELSE [type |-> "ENVIDO_DECLINED", declinedBy |-> userId, points |-> points]
             answered == [g EXCEPT !.events = Append(g.events, envidoEvent),
                                   !.state.envido = newEnvido,
                                   !.state.playerTurn = newEnvido.lastCaller,
                                   !.state.points = points]
             gameWithWinnerAnalysis == withWinnerResult(answered)
         IN  Return(IF gameWithWinnerAnalysis # <<>> THEN gameWithWinnerAnalysis[1]
                    ELSE answered)

answerEnvido(g, userId, accepted) ==
    IF notPlayerTurn(g, userId) THEN Throw(g, NotYourTurn)
    ELSE IF Len(g.players) < 2 THEN Throw(g, TypeError)
    ELSE IF step(g) # 1 THEN Throw(g, InvalidStep)
    ELSE IF ~g.state.envido.waitingResponse THEN Throw(g, NotWaitingResponse)
    ELSE IF accepted /\ ~({g.players[1], g.players[2]} \subseteq DOMAIN g.state.cards)
    THEN Throw(g, TypeError)
    ELSE LET old == g.state.envido
             res == analyzeEnvido(g, userId, accepted)
             newEnvido ==
                [calls |-> old.calls, firstCaller |-> old.firstCaller,
                 lastCaller |-> old.lastCaller, acceptedBy |-> userId,
                 accepted |-> Accepted(accepted), winner |-> res.winner,
                 playersPoints |-> res.playersPoints, waitingResponse |-> FALSE]
             awarded(p) == Add(PointsOf(g.state.points, p), PointsOf(res.playersPoints, p))
             points == (g.players[2] :> awarded(g.players[2]))
                           @@ (g.players[1] :> awarded(g.players[1]))
             envidoEvent ==
                IF accepted
                THEN [type |-> "ENVIDO_ACCEPTED", acceptedBy |-> userId, points |-> points]
                ELSE [type |-> "ENVIDO_DECLINED", declinedBy |-> userId, points |-> points]
             answered == [g EXCEPT !.events = Append(g.events, envidoEvent),
                                   !.state.envido = newEnvido,
                                   !.state.playerTurn = newEnvido.firstCaller,
                                   !.state.points = points]
             gameWithWinnerAnalysis == withWinnerResult(answered)
         IN  Return(IF gameWithWinnerAnalysis # <<>> THEN gameWithWinnerAnalysis[1]
                    ELSE answered)

(* ------------------------------ goToDeck ------------------------------ *)

\* The round given to the player who goes to the deck.
goToDeckWinsRound(g, userId, deal) ==
    IF notPlayerTurn(g, userId) THEN Throw(g, NotYourTurn)
    ELSE IF isWaitingResponse(g) THEN Throw(g, WaitingResponse)
    ELSE IF OtherPlayer(g, userId) = Undefined THEN Throw(g, TypeError)
    ELSE Return(setRoundWinner([g EXCEPT !.events = Append(g.events, buildToDeckEvent(userId))],
                               userId, deal))

goToDeck(g, userId, deal) ==
    IF notPlayerTurn(g, userId) THEN Throw(g, NotYourTurn)
    ELSE IF isWaitingResponse(g) THEN Throw(g, WaitingResponse)
    ELSE IF OtherPlayer(g, userId) = Undefined THEN Throw(g, TypeError)
    ELSE LET winner == OtherPlayer(g, userId)
             toDeckEvent == buildToDeckEvent(userId)
         IN  Return(setRoundWinner([g EXCEPT !.events = Append(g.events, toDeckEvent)],
                                   winner, deal))

(* ------------------------------ actions ------------------------------- *)

Call(op, userId, card, call, accepted) ==
    [op |-> op, userId |-> userId, card |-> card, call |-> call, accepted |-> accepted]

\* Cards a request may name: the cards the user holds and one card that is
\* never dealt.
CardInputs(userId) ==
    {OrEmpty(game.state.cards, userId)[i] : i \in DOMAIN OrEmpty(game.state.cards, userId)}
        \cup {Card(4, "oro")}

\* A use case that is not running.
Idle == [pc |-> "idle", call |-> Call("none", Undefined, NoCard, "none", FALSE),
         game |-> new(Undefined), savedGame |-> new(Undefined)]

Init ==
    \E user \in Users :
        /\ game = new(user)
        /\ lastCall = Call("new", user, NoCard, "none", FALSE)
        /\ lastErr = NoError
        /\ inflight = [r \in Requests |-> Idle]
        /\ notified = <<>>

\* join-game: the second player joins when canJoin holds and the game is
\* started with a fresh deal.
JoinGame ==
    \E user \in Users, deal \in Deals :
        /\ canJoin(game, user)
        /\ game' = start(join(game, user), deal)
        /\ lastCall' = Call("join", user, NoCard, "none", FALSE)
        /\ lastErr' = NoError
        /\ UNCHANGED orch

ThrowCard ==
    \E userId \in Users, deal \in Deals : \E card \in CardInputs(userId) :
        LET r == throwCard(game, userId, card, deal)
        IN  /\ Len(game.events) < MaxEvents
            /\ game' = r.game
            /\ lastCall' = Call("throwCard", userId, card, "none", FALSE)
            /\ lastErr' = r.err
            /\ UNCHANGED orch

Envido ==
    \E userId \in Users, call \in EnvidoCall :
        LET r == envido(game, userId, call)
        IN  /\ Len(game.events) < MaxEvents
            /\ game' = r.game
            /\ lastCall' = Call("envido", userId, NoCard, call, FALSE)
            /\ lastErr' = r.err
            /\ UNCHANGED orch

AnswerEnvido ==
    \E userId \in Users, accepted \in BOOLEAN :
        LET r == answerEnvido(game, userId, accepted)
        IN  /\ Len(game.events) < MaxEvents
            /\ game' = r.game
            /\ lastCall' = Call("answerEnvido", userId, NoCard, "none", accepted)
            /\ lastErr' = r.err
            /\ UNCHANGED orch

GoToDeck ==
    \E userId \in Users, deal \in Deals :
        LET r == goToDeck(game, userId, deal)
        IN  /\ Len(game.events) < MaxEvents
            /\ game' = r.game
            /\ lastCall' = Call("goToDeck", userId, NoCard, "none", FALSE)
            /\ lastErr' = r.err
            /\ UNCHANGED orch

Next == JoinGame \/ ThrowCard \/ Envido \/ AnswerEnvido \/ GoToDeck

Spec == Init /\ [][Next]_vars

(* ----------------------- the aggregate, unguarded --------------------- *)

\* Game declares TrucoCall and the TRUCO_* event types but no method truco:
\* a call of game.truco throws before any field is read.
truco(g, userId, call) == Throw(g, TypeError)

\* start() reads players[1].id first and throws when there is one player.
startCall(g, deal) ==
    IF Len(g.players) < 2 THEN Throw(g, TypeError) ELSE Return(start(g, deal))

\* join(user) on any game, whatever canJoin says.
Join ==
    \E user \in Users :
        /\ Len(game.players) < MaxPlayers
        /\ game' = join(game, user)
        /\ lastCall' = Call("join", user, NoCard, "none", FALSE)
        /\ lastErr' = NoError
        /\ UNCHANGED orch

Start ==
    \E deal \in Deals :
        LET r == startCall(game, deal)
        IN  /\ Len(game.events) < MaxRawEvents
            /\ game' = r.game
            /\ lastCall' = Call("start", Undefined, NoCard, "none", FALSE)
            /\ lastErr' = r.err
            /\ UNCHANGED orch

Truco ==
    \E userId \in Users, call \in TrucoCall :
        LET r == truco(game, userId, call)
        IN  /\ Len(game.events) < MaxRawEvents
            /\ game' = r.game
            /\ lastCall' = Call("truco", userId, NoCard, call, FALSE)
            /\ lastErr' = r.err
            /\ UNCHANGED orch

RawThrowCard == Len(game.events) < MaxRawEvents /\ ThrowCard

RawEnvido == Len(game.events) < MaxRawEvents /\ Envido

RawAnswerEnvido == Len(game.events) < MaxRawEvents /\ AnswerEnvido

RawGoToDeck == Len(game.events) < MaxRawEvents /\ GoToDeck

NextAggregate ==
    Join \/ Start \/ Truco \/ RawThrowCard \/ RawEnvido \/ RawAnswerEnvido \/ RawGoToDeck

SpecAggregate == Init /\ [][NextAggregate]_vars

(* ---------------------- a match to the last trick --------------------- *)

\* The hands dealt in every round of the match: the first deal of Deals.
MatchDeal ==
    << <<Card(7, "espada"), Card(6, "espada"), Card(4, "copa")>>,
       <<Card(5, "basto"), Card(4, "basto"), Card(1, "oro")>> >>

MatchJoinGame ==
    \E user \in Users :
        /\ canJoin(game, user)
        /\ game' = start(join(game, user), MatchDeal)
        /\ lastCall' = Call("join", user, NoCard, "none", FALSE)
        /\ lastErr' = NoError
        /\ UNCHANGED orch

\* Nobody calls REAL_ENVIDO or FALTA_ENVIDO in this match.
MatchEnvido ==
    \E userId \in Users :
        LET r == envido(game, userId, ENVIDO)
        IN  /\ Len(game.events) < MaxMatchEvents
            /\ game' = r.game
            /\ lastCall' = Call("envido", userId, NoCard, ENVIDO, FALSE)
            /\ lastErr' = r.err
            /\ UNCHANGED orch

MatchAnswerEnvido ==
    \E userId \in Users, accepted \in BOOLEAN :
        LET r == answerEnvido(game, userId, accepted)
        IN  /\ Len(game.events) < MaxMatchEvents
            /\ game' = r.game
            /\ lastCall' = Call("answerEnvido", userId, NoCard, "none", accepted)
            /\ lastErr' = r.err
            /\ UNCHANGED orch

MatchThrowCard ==
    \E userId \in Users : \E card \in CardInputs(userId) :
        LET r == throwCard(game, userId, card, MatchDeal)
        IN  /\ Len(game.events) < MaxMatchEvents
            /\ game' = r.game
            /\ lastCall' = Call("throwCard", userId, card, "none", FALSE)
            /\ lastErr' = r.err
            /\ UNCHANGED orch

NextMatch == MatchJoinGame \/ MatchEnvido \/ MatchAnswerEnvido \/ MatchThrowCard

SpecMatch == Init /\ [][NextMatch]_vars

(* ----------------------------- use cases ------------------------------ *)

\* this.events.slice(oldGame.events.length)
getNewEvents(g, oldGame) == SubSeq(g.events, Len(oldGame.events) + 1, Len(g.events))

\* The transition a use case applies to the game it loaded.
Transition(g, call, deal) ==
    CASE call.op = "envido" -> envido(g, call.userId, call.call)
      [] call.op = "answerEnvido" -> answerEnvido(g, call.userId, call.accepted)
      [] call.op = "goToDeck" -> goToDeck(g, call.userId, deal)

\* The requests the players send: ENVIDO, an answer to it, going to the deck.
UseCaseCalls ==
    {Call("envido", userId, NoCard, ENVIDO, FALSE) : userId \in Users}
        \cup {Call("answerEnvido", userId, NoCard, "none", accepted) :
                    userId \in Users, accepted \in BOOLEAN}
        \cup {Call("goToDeck", userId, NoCard, "none", FALSE) : userId \in Users}

\* join-game: the second player joins, the game is started and saved, and
\* the players are notified of its first events.
JoinGameUseCase ==
    \E user \in Users, deal \in Deals :
        /\ canJoin(game, user)
        /\ game' = start(join(game, user), deal)
        /\ lastCall' = Call("join", user, NoCard, "none", FALSE)
        /\ lastErr' = NoError
        /\ notified' = notified \o getNewEvents(game', game)
        /\ UNCHANGED inflight

\* const game = await this.gameService.getUserGame(id, userId)
Load ==
    \E r \in Requests, call \in UseCaseCalls :
        /\ inflight[r].pc = "idle"
        /\ game.state.started
        /\ Len(game.events) < MaxSavedEvents
        /\ Len(notified) < MaxSavedEvents
        /\ inflight' = [inflight EXCEPT ![r] = [pc |-> "loaded", call |-> call,
                                                game |-> game, savedGame |-> game]]
        /\ UNCHANGED <<game, lastCall, lastErr, notified>>

\* The transition on the loaded game and, when it does not throw,
\* await this.gameService.update(updatedGame): the repository keeps the
\* game it is given and returns it.
Update ==
    \E r \in Requests, deal \in Deals :
        LET updated == Transition(inflight[r].game, inflight[r].call, deal)
        IN  /\ inflight[r].pc = "loaded"
            /\ lastCall' = inflight[r].call
            /\ lastErr' = updated.err
            /\ IF updated.err = NoError
               THEN /\ game' = updated.game
                    /\ inflight' = [inflight EXCEPT ![r].pc = "saved",
                                                    ![r].savedGame = updated.game]
               ELSE /\ game' = game
                    /\ inflight' = [inflight EXCEPT ![r] = Idle]
            /\ UNCHANGED notified

\* notifyNewEvents(savedGame.getPlayersIds(), savedGame.getNewEvents(game))
Notify ==
    \E r \in Requests :
        /\ inflight[r].pc = "saved"
        /\ notified' = notified \o getNewEvents(inflight[r].savedGame, inflight[r].game)
        /\ inflight' = [inflight EXCEPT ![r] = Idle]
        /\ UNCHANGED <<game, lastCall, lastErr>>

NextUseCases == JoinGameUseCase \/ Load \/ Update \/ Notify

SpecUseCases == Init /\ [][NextUseCases]_vars

(* ------------------------------- claims ------------------------------- *)

PlayerOps == {"throwCard", "envido", "answerEnvido", "goToDeck"}

Thrown(g, p) == OrEmpty(g.state.thrownCards, p)

Held(g, p) == OrEmpty(g.state.cards, p)

PlayerSet(g) == {g.players[i] : i \in DOMAIN g.players}

\* C1: a throwCard, envido, answerEnvido or goToDeck by a user who is not
\* state.playerTurn fails with "Not your turn" and leaves the game (state
\* and event log) as it was.
C1_TurnPrecondition ==
    [][(lastCall'.op \in PlayerOps /\ lastCall'.userId # game.state.playerTurn)
          => (lastErr' = NotYourTurn /\ game' = game)]_vars

\* Reached: a started game in which the player who is not on turn tried to
\* throw a card of their own hand and was refused.
C1_Witness ==
    /\ game.state.started
    /\ lastCall.op = "throwCard"
    /\ lastCall.userId # game.state.playerTurn
    /\ Includes(Held(game, lastCall.userId), lastCall.card)
    /\ lastErr = NotYourTurn

\* C2 as claimed: while envido.waitingResponse, throwCard and goToDeck by
\* any player fail with "Waiting response" and change nothing.
C2_Original ==
    [][(isWaitingResponse(game) /\ lastCall'.op \in {"throwCard", "goToDeck"})
          => (lastErr' = WaitingResponse /\ game' = game)]_vars

\* C2 amended: while envido.waitingResponse, throwCard and goToDeck change
\* nothing and fail, with "Waiting response" for the player on turn and
\* with "Not your turn" for the other; a transition that succeeds in such a
\* state is an envido answer or an envido call that extends the chain
\* legally.
C2_ResponsePrecondition ==
    [][(game.state.envido.waitingResponse /\ lastCall'.op \in PlayerOps)
          => /\ lastCall'.op \in {"throwCard", "goToDeck"}
                  => /\ game' = game
                     /\ lastErr' = IF lastCall'.userId = game.state.playerTurn
                                   THEN WaitingResponse ELSE NotYourTurn
             /\ lastErr' = NoError
                  => \/ lastCall'.op = "answerEnvido"
                     \/ /\ lastCall'.op = "envido"
                        /\ isValidEnvidoCall(game, lastCall'.call)]_vars

\* Reached: the player who has to answer an envido tried to go to the deck
\* and was told to answer first.
C2_Witness ==
    /\ game.state.envido.waitingResponse
    /\ lastCall.op = "goToDeck"
    /\ lastCall.userId = game.state.playerTurn
    /\ lastErr = WaitingResponse

\* C3 as claimed: winner is set if and only if some player has at least 15
\* match points.
C3_WinnerIffFifteen ==
    game.state.started =>
        ((game.state.winner # Undefined)
            <=> (\E p \in PlayerSet(game) : game.state.points[p] >= 15))

\* C4 as claimed: once winner is set, every throwCard, envido, answerEnvido
\* and goToDeck is rejected and state.points does not change.
C4_FinishedGameRejects ==
    [][(game.state.winner # Undefined /\ lastCall'.op \in PlayerOps)
          => (lastErr' # NoError /\ game'.state.points = game.state.points)]_vars

\* C5 as claimed: the winner is the player with strictly more match points,
\* and the mano only when the points are equal.
C5_WinnerHasMorePoints ==
    game.state.winner # Undefined =>
        LET w == game.state.winner
            o == OtherPlayer(game, w)
        IN  \/ game.state.points[w] > game.state.points[o]
            \/ game.state.points[w] = game.state.points[o] /\ w = game.state.firstPlayer

\* C6 as claimed: the event log holds at most one RESULT event and nothing
\* is appended after it.
C6_ResultIsLast ==
    \A i \in DOMAIN game.events :
        game.events[i].type = "RESULT" => i = Len(game.events)

CardsConserved(g) ==
    \A p \in PlayerSet(g) : Len(Held(g, p)) + Len(Thrown(g, p)) = 3

\* The named card left the hand of p and is the last card p has thrown;
\* the other player's cards are where they were.
CardMoved(g, h, p, card) ==
    /\ Includes(Held(g, p), card)
    /\ Held(h, p) = SelectSeq(Held(g, p), LAMBDA c : c # card)
    /\ Len(Held(h, p)) = Len(Held(g, p)) - 1
    /\ Thrown(h, p) = Append(Thrown(g, p), card)
    /\ \A q \in PlayerSet(g) \ {p} : Held(h, q) = Held(g, q) /\ Thrown(h, q) = Thrown(g, q)

\* C7 as claimed: in a started game each player's held and thrown cards
\* number 3, and every successful throwCard leaves the named card moved
\* from cards[p] to the end of thrownCards[p].
C7_Original ==
    /\ [](game.state.started => CardsConserved(game))
    /\ [][(lastCall'.op = "throwCard" /\ lastErr' = NoError)
             => CardMoved(game, game', lastCall'.userId, lastCall'.card)]_vars

\* C7 amended: in a started game each player's held and thrown cards number
\* 3; a successful throwCard that does not deal the next round leaves the
\* named card moved from cards[p] to the end of thrownCards[p], and one
\* that decides the round without ending the match leaves both players
\* with three fresh cards and no thrown card.
C7_CardConservation ==
    /\ [](game.state.started => CardsConserved(game))
    /\ [][(lastCall'.op = "throwCard" /\ lastErr' = NoError)
             => IF game'.state.round = game.state.round
                THEN CardMoved(game, game', lastCall'.userId, lastCall'.card)
                ELSE /\ game'.state.round = game.state.round + 1
                     /\ \A p \in PlayerSet(game) :
                            Len(Held(game', p)) = 3 /\ Thrown(game', p) = <<>>]_vars

\* Reached: a player has thrown two cards and holds one, in the second
\* round of the game.
C7_Witness ==
    /\ game.state.round = 2
    /\ lastCall.op = "throwCard"
    /\ lastErr = NoError
    /\ Len(Thrown(game, lastCall.userId)) = 1
    /\ Len(Held(game, lastCall.userId)) = 2

\* C8: while envido.waitingResponse, playerTurn is the opponent of
\* envido.lastCaller.
C8_TurnOfResponder ==
    game.state.envido.waitingResponse =>
        /\ game.state.playerTurn \in PlayerSet(game)
        /\ game.state.envido.lastCaller \in PlayerSet(game)
        /\ game.state.playerTurn # game.state.envido.lastCaller

\* Reached: a chain of three calls is pending, the last by the player who
\* opened it.
C8_Witness ==
    /\ game.state.envido.waitingResponse
    /\ Len(game.state.envido.calls) = 3
    /\ game.state.envido.lastCaller = game.state.envido.firstCaller

SomeCardThrown(g) == \E p \in PlayerSet(g) : Len(Thrown(g, p)) > 0

BothHaveThrown(g) == \A p \in PlayerSet(g) : Len(Thrown(g, p)) > 0

EnvidoChain == <<ENVIDO, ENVIDO, REAL_ENVIDO, FALTA_ENVIDO>>

\* calls is EnvidoChain with some of its entries left out.
IsSubChain(calls) ==
    \E f \in [DOMAIN calls -> DOMAIN EnvidoChain] :
        /\ \A i \in DOMAIN calls : calls[i] = EnvidoChain[f[i]]
        /\ \A i, j \in DOMAIN calls : i < j => f[i] < f[j]

\* C10: envido.calls is always an order-preserving sub-chain of ENVIDO,
\* ENVIDO, REAL_ENVIDO, FALTA_ENVIDO, and a call that would break this is
\* rejected with the game unchanged: as "Invalid envido call" when it
\* comes from the player on turn in the first trick.
C10_EnvidoEscalation ==
    /\ [](IsSubChain(game.state.envido.calls))
    /\ [][(lastCall'.op = "envido"
             /\ ~IsSubChain(Append(game.state.envido.calls, lastCall'.call)))
            => /\ lastErr' # NoError
               /\ game' = game
               /\ (Len(game.players) = 2 /\ lastCall'.userId = game.state.playerTurn
                     /\ ~BothHaveThrown(game))
                    => lastErr' = InvalidEnvidoCall]_vars

\* Reached: the full chain has been called and a further call was refused
\* as an invalid envido call.
C10_Witness ==
    /\ game.state.envido.calls = EnvidoChain
    /\ lastCall.op = "envido"
    /\ lastErr = InvalidEnvidoCall

Count(calls, c) == Cardinality({i \in DOMAIN calls : calls[i] = c})

CountType(events, type) == Cardinality({i \in DOMAIN events : events[i].type = type})

IsPrefix(s, t) == Len(s) <= Len(t) /\ SubSeq(t, 1, Len(s)) = s

\* C11: when the responder declines a pending envido, the last caller's
\* points grow by envido.calls.length, the decliner's points stay, and one
\* ENVIDO_DECLINED event with the cumulative points is appended.
C11_DeclinedEnvido ==
    [][(lastCall'.op = "answerEnvido" /\ ~lastCall'.accepted /\ lastErr' = NoError)
          => LET caller == game.state.envido.lastCaller
                 decliner == lastCall'.userId
                 n == Len(game.events)
             IN  /\ caller # decliner
                 /\ game'.state.points[caller]
                        = game.state.points[caller] + Len(game.state.envido.calls)
                 /\ game'.state.points[decliner] = game.state.points[decliner]
                 /\ IsPrefix(game.events, game'.events)
                 /\ Len(game'.events) > n
                 /\ game'.events[n + 1]
                        = [type |-> "ENVIDO_DECLINED", declinedBy |-> decliner,
                           points |-> game'.state.points]
                 /\ CountType(game'.events, "ENVIDO_DECLINED")
                        = CountType(game.events, "ENVIDO_DECLINED") + 1]_vars

\* Reached: a chain of two calls was declined and gave its last caller two
\* points, the decliner none.
C11_Witness ==
    /\ lastCall.op = "answerEnvido"
    /\ ~lastCall.accepted
    /\ lastErr = NoError
    /\ Len(game.state.envido.calls) = 2
    /\ game.state.points[game.state.envido.lastCaller] = 2
    /\ game.state.points[lastCall.userId] = 0

EnvidoValue(g, p) == getEnvidoCardsValue(Held(g, p) \o Thrown(g, p))

\* The player with the higher envido value, the mano when they are equal.
EnvidoWinner(g) ==
    LET p1 == g.players[1]
        p2 == g.players[2]
    IN  IF EnvidoValue(g, p1) > EnvidoValue(g, p2) THEN p1
        ELSE IF EnvidoValue(g, p2) > EnvidoValue(g, p1) THEN p2
        ELSE g.state.firstPlayer

\* C12: an accepted envido is won by the player with the higher envido
\* value over held and thrown cards, by the mano on a tie; without
\* FALTA_ENVIDO in the chain the winner gains 2 points per ENVIDO and 3 per
\* REAL_ENVIDO and the loser's points stay.
C12_AcceptedEnvido ==
    [][(lastCall'.op = "answerEnvido" /\ lastCall'.accepted /\ lastErr' = NoError)
          => LET w == EnvidoWinner(game)
                 l == IF w = game.players[1] THEN game.players[2] ELSE game.players[1]
                 calls == game.state.envido.calls
             IN  /\ game'.state.envido.winner = w
                 /\ Count(calls, FALTA_ENVIDO) = 0
                      => /\ game'.state.points[w]
                              = game.state.points[w] + 2 * Count(calls, ENVIDO)
                                                     + 3 * Count(calls, REAL_ENVIDO)
                         /\ game'.state.points[l] = game.state.points[l]]_vars

\* Reached: ENVIDO, ENVIDO, REAL_ENVIDO was accepted and gave 7 points to
\* the winner of the envido.
C12_Witness ==
    /\ lastCall.op = "answerEnvido"
    /\ lastCall.accepted
    /\ lastErr = NoError
    /\ game.state.envido.calls = <<ENVIDO, ENVIDO, REAL_ENVIDO>>
    /\ game.state.points[game.state.envido.winner] = 7

\* C13 as claimed: in an accepted chain with FALTA_ENVIDO the winner gains,
\* for the FALTA_ENVIDO, 5 - max(points[loser], 0) when the loser has fewer
\* than 15 points and 30 - points[loser] otherwise.
C13_FaltaAward ==
    [][(lastCall'.op = "answerEnvido" /\ lastCall'.accepted /\ lastErr' = NoError
            /\ Count(game.state.envido.calls, FALTA_ENVIDO) > 0)
          => LET w == game'.state.envido.winner
                 l == IF w = game.players[1] THEN game.players[2] ELSE game.players[1]
                 calls == game.state.envido.calls
                 loserPoints == game.state.points[l]
                 falta == IF loserPoints < 15
                          THEN 5 - (IF loserPoints > 0 THEN loserPoints ELSE 0)
                          ELSE 30 - loserPoints
             IN  game'.state.points[w]
                    = game.state.points[w] + 2 * Count(calls, ENVIDO)
                                           + 3 * Count(calls, REAL_ENVIDO) + falta]_vars

\* C14: goToDeck by the player on turn, no response pending, gives the
\* current trucoPoints to the opponent and appends TO_DECK, ROUND_RESULT
\* with the cumulative points, and then RESULT when the match is decided,
\* NEXT_ROUND when it is not, whatever cards have been thrown.
C14_GoToDeck ==
    [][(lastCall'.op = "goToDeck" /\ game.state.started
            /\ lastCall'.userId = game.state.playerTurn
            /\ ~game.state.envido.waitingResponse)
          => LET u == lastCall'.userId
                 o == IF u = game.players[1] THEN game.players[2] ELSE game.players[1]
                 n == Len(game.events)
                 decided == \E p \in PlayerSet(game) : game'.state.points[p] >= MAX_POINTS
             IN  /\ lastErr' = NoError
                 /\ game'.state.points[o] = game.state.points[o] + game.state.trucoPoints
                 /\ game'.state.points[u] = game.state.points[u]
                 /\ IsPrefix(game.events, game'.events)
                 /\ Len(game'.events) = n + 3
                 /\ game'.events[n + 1] = [type |-> "TO_DECK", playerId |-> u]
                 /\ game'.events[n + 2]
                        = [type |-> "ROUND_RESULT", winner |-> o,
                           points |-> game'.state.points]
                 /\ game'.events[n + 3].type = IF decided THEN "RESULT" ELSE "NEXT_ROUND"
                 /\ decided <=> game'.state.winner # Undefined]_vars

\* Reached: a player threw a card and then went to the deck; the next round
\* was dealt.
C14_Witness ==
    /\ lastCall.op = "goToDeck"
    /\ lastErr = NoError
    /\ Len(game.events) >= 4
    /\ game.events[Len(game.events) - 3].type = "THROW_CARD"
    /\ game.events[Len(game.events) - 3].playerId = lastCall.userId
    /\ game.events[Len(game.events) - 2].type = "TO_DECK"
    /\ game.events[Len(game.events)].type = "NEXT_ROUND"

\* C15 as claimed: every successful transition, join included, keeps the
\* old event log as a prefix of the new one and makes the log longer.
C15_Original ==
    [][lastErr' = NoError
          => /\ IsPrefix(game.events, game'.events)
             /\ Len(game'.events) > Len(game.events)]_vars

\* C15 amended: every successful transition keeps the old event log as a
\* prefix of the new one; join appends the player and leaves the log as it
\* is, every other transition makes the log longer.
C15_EventLog ==
    [][lastErr' = NoError
          => /\ IsPrefix(game.events, game'.events)
             /\ IF lastCall'.op = "join"
                THEN /\ game'.events = game.events
                     /\ game'.players = Append(game.players, lastCall'.userId)
                ELSE Len(game'.events) > Len(game.events)]_vars

\* Reached: a second player has joined, the game was started, and a card
\* thrown after that added THROW_CARD to the log.
C15_Witness ==
    /\ Len(game.players) = 2
    /\ lastCall.op = "throwCard"
    /\ lastErr = NoError
    /\ Len(game.events) = 3
    /\ game.events[1].type = "START"
    /\ game.events[3].type = "THROW_CARD"

\* C17 as claimed: join succeeds only when canJoin holds for the joining
\* user, and the game it returns has one or two players, all different.
C17_JoinGuarded ==
    [][(lastCall'.op = "join" /\ lastErr' = NoError)
          => /\ canJoin(game, lastCall'.userId)
             /\ Len(game'.players) \in {1, 2}
             /\ \A i, j \in DOMAIN game'.players :
                    i # j => game'.players[i] # game'.players[j]]_vars

\* C18 as claimed: start succeeds only on a game of two players that is not
\* started, and then sets started, zeroes both players' points, deals both
\* hands and appends START and NEXT_ROUND of round 1 for firstPlayer; any
\* other start fails and changes nothing.
C18_StartPrecondition ==
    [][lastCall'.op = "start"
          => IF Len(game.players) = 2 /\ ~game.state.started
             THEN /\ lastErr' = NoError
                  /\ game'.state.started
                  /\ \A p \in PlayerSet(game) :
                        /\ PointsOf(game'.state.points, p) = 0
                        /\ Len(Held(game', p)) = 3
                  /\ Len(game'.events) = Len(game.events) + 2
                  /\ IsPrefix(game.events, game'.events)
                  /\ game'.events[Len(game.events) + 1] = buildStartEvent
                  /\ game'.events[Len(game.events) + 2]
                        = buildNextRoundEvent(1, game'.state.cards, game.state.firstPlayer)
             ELSE /\ lastErr' # NoError
                  /\ game' = game]_vars

\* C20 as claimed: in a started game of two players without a winner, the
\* player on turn can call TRUCO when no response is pending.
C20_TrucoCall ==
    [][(/\ lastCall'.op = "truco"
        /\ lastCall'.call = TRUCO
        /\ Len(game.players) = 2
        /\ game.state.started
        /\ game.state.winner = Undefined
        /\ lastCall'.userId = game.state.playerTurn
        /\ ~isWaitingResponse(game))
          => lastErr' = NoError]_vars

\* C16 as claimed: in every state of a started game, after the winner is
\* set as well, step() is 1, 2 or 3 and is one more than the smaller number
\* of cards thrown by a player.
C16_StepRange ==
    (game.state.started /\ Len(game.players) = 2)
        => /\ step(game) \in {1, 2, 3}
           /\ step(game) = Min(Len(Thrown(game, game.players[1])),
                               Len(Thrown(game, game.players[2]))) + 1

\* C19 as claimed: two use cases on the same game run one after the other,
\* so a transition is applied to the game that is saved at that moment, and
\* the events notified to the players are the saved event log, each event
\* once and in the order of the log.
C19_Serialized ==
    [][/\ \A r \in Requests :
            (inflight[r].pc = "loaded" /\ inflight'[r].pc = "saved")
                => inflight[r].game = game
       /\ IsPrefix(notified', game'.events)]_vars

\* Index of the last event of one of the types, 0 when there is none.
LastIndex(events, types) ==
    LET idx == {i \in DOMAIN events : events[i].type \in types}
    IN  IF idx = {} THEN 0 ELSE CHOOSE i \in idx : \A j \in idx : j <= i

\* Index of the first ENVIDO_CALL of the current round, 0 when there is none.
FirstCallIndex(g) ==
    LET from == LastIndex(g.events, {"NEXT_ROUND"})
        idx == {i \in DOMAIN g.events : i > from /\ g.events[i].type = "ENVIDO_CALL"}
    IN  IF idx = {} THEN 0 ELSE CHOOSE i \in idx : \A j \in idx : i <= j

\* The player the log names as next to play before the first call of the
\* round's envido chain.
TurnBeforeFirstCall(g) ==
    LET i == FirstCallIndex(g)
        j == LastIndex(SubSeq(g.events, 1, i - 1), {"NEXT_ROUND", "THROW_CARD"})
    IN  g.events[j].nextPlayerId

\* C21: after a successful answerEnvido that does not end the match,
\* envido.waitingResponse is false and playerTurn is envido.firstCaller, the
\* player who was to play before the first call of the chain, whatever the
\* length of the chain and whoever opened it.
C21_TurnBackToFirstCaller ==
    [][(lastCall'.op = "answerEnvido" /\ lastErr' = NoError
            /\ game'.state.winner = Undefined)
          => /\ ~game'.state.envido.waitingResponse
             /\ game'.state.playerTurn = game'.state.envido.firstCaller
             /\ game'.state.envido.firstCaller = game.state.envido.firstCaller
             /\ game.state.envido.firstCaller = TurnBeforeFirstCall(game)]_vars

\* Reached: the mano threw a card, the other player opened the envido, the
\* mano raised it, and the answer gave the turn back to the player who
\* opened.
C21_Witness ==
    /\ lastCall.op = "answerEnvido"
    /\ lastErr = NoError
    /\ game.state.winner = Undefined
    /\ Len(game.state.envido.calls) = 2
    /\ game.state.envido.firstCaller # game.state.firstPlayer
    /\ Len(Thrown(game, game.state.firstPlayer)) = 1
    /\ game.state.playerTurn = game.state.envido.firstCaller

\* C22: when a throw or goToDeck resolves a round and no player has reached
\* the match target, the new state has round + 1, the other player as
\* firstPlayer and playerTurn, no thrown cards, three cards per player,
\* trucoPoints 1, a fresh envido, the points of ROUND_RESULT, and NEXT_ROUND
\* right after ROUND_RESULT; firstPlayer is players[0] in odd rounds and
\* players[1] in even rounds.
C22_RoundTransition ==
    [][LET n == Len(game.events)
           p1 == game.players[1]
           p2 == game.players[2]
       IN  (/\ lastCall'.op \in {"throwCard", "goToDeck"}
            /\ lastErr' = NoError
            /\ Len(game'.events) >= n + 2
            /\ game'.events[n + 2].type = "ROUND_RESULT"
            /\ \A p \in {p1, p2} : game'.state.points[p] < MAX_POINTS)
              => /\ game'.state.round = game.state.round + 1
                 /\ game'.state.firstPlayer # game.state.firstPlayer
                 /\ game'.state.firstPlayer \in {p1, p2}
                 /\ game'.state.playerTurn = game'.state.firstPlayer
                 /\ game'.state.thrownCards = EmptyMap
                 /\ \A p \in {p1, p2} : Len(Held(game', p)) = 3
                 /\ game'.state.trucoPoints = 1
                 /\ game'.state.envido = NewEnvido
                 /\ game'.state.points = game'.events[n + 2].points
                 /\ Len(game'.events) = n + 3
                 /\ game'.events[n + 3]
                        = buildNextRoundEvent(game'.state.round, game'.state.cards,
                                              game'.state.firstPlayer)
                 /\ game'.state.firstPlayer
                        = IF game'.state.round % 2 = 1 THEN p1 ELSE p2]_vars

\* Reached: a throw decided the first round without ending the match and
\* the second round began with the second player as mano.
C22_Witness ==
    /\ lastCall.op = "throwCard"
    /\ lastErr = NoError
    /\ game.state.round = 2
    /\ game.state.firstPlayer = game.players[2]
    /\ game.events[Len(game.events) - 1].type = "ROUND_RESULT"
    /\ game.events[Len(game.events)].type = "NEXT_ROUND"

\* C23 as claimed: in a started game the numbers of cards the two players
\* have thrown differ by at most one; when they differ and no envido
\* response is pending, the player with fewer thrown cards is on turn; after
\* a throw that completes a trick the winner of the trick is on turn, or on
\* a parda the opponent of the player who threw.
C23_TrickTurnOrder ==
    (game.state.started /\ Len(game.players) = 2)
        => LET p1 == game.players[1]
               p2 == game.players[2]
               t1 == Thrown(game, p1)
               t2 == Thrown(game, p2)
               v1 == getCardValue(t1[Len(t1)])
               v2 == getCardValue(t2[Len(t2)])
           IN  /\ Len(t1) - Len(t2) \in {-1, 0, 1}
               /\ (Len(t1) # Len(t2) /\ ~isWaitingResponse(game))
                    => game.state.playerTurn = IF Len(t1) < Len(t2) THEN p1 ELSE p2
               /\ (/\ lastCall.op = "throwCard"
                   /\ lastErr = NoError
                   /\ Len(t1) = Len(t2)
                   /\ Len(t1) > 0)
                    => game.state.playerTurn
                          = IF v1 > v2 THEN p1
                            ELSE IF v2 > v1 THEN p2
                            ELSE OtherPlayer(game, lastCall.userId)

\* Number of envido answers in the log since the last NEXT_ROUND.
AnswersThisRound(g) ==
    LET from == LastIndex(g.events, {"NEXT_ROUND"})
    IN  Cardinality({i \in DOMAIN g.events :
                        /\ i > from
                        /\ g.events[i].type \in {"ENVIDO_ACCEPTED", "ENVIDO_DECLINED"}})

\* C24 as claimed: once the envido of a round has been answered, every
\* further envido call of the round is rejected, and the log has at most one
\* ENVIDO_ACCEPTED or ENVIDO_DECLINED between two NEXT_ROUND events.
C24_EnvidoOncePerRound ==
    [][/\ (lastCall'.op = "envido" /\ AnswersThisRound(game) > 0)
            => (lastErr' # NoError /\ game' = game)
       /\ AnswersThisRound(game') <= 1]_vars

\* C25 as claimed: on a game of two players that is not started, throwCard,
\* envido, answerEnvido and goToDeck are rejected and leave the state and
\* the event log as they are.
C25_NoPlayBeforeStart ==
    [][(/\ lastCall'.op \in PlayerOps
        /\ Len(game.players) = 2
        /\ ~game.state.started)
          => (lastErr' # NoError /\ game' = game)]_vars

====
